---- MODULE Spec2Model ----
(***************************************************************************)
(* Model of formatStringWithData (src/src/formatStringWithData.ts).        *)
(*                                                                         *)
(* A JavaScript string is a sequence of one-character strings.  A          *)
(* JavaScript value is a record tagged by t: "undef", "null", "bool",      *)
(* "num", "str", "arr", "obj", "fn" (a function inherited from a           *)
(* prototype) and "throw" (an exception in flight).  A number is a         *)
(* natural number kept as its sequence of decimal digits, most significant *)
(* first, so that values beyond 32 bits (millisecond timestamps, the       *)
(* 1e11 threshold) are exact.  Whitespace is the space character; the      *)
(* model's texts hold no line terminators.  The host's date rendering is   *)
(* modelled for the en-US locale in the UTC time zone.                     *)
(***************************************************************************)
EXTENDS Integers, Sequences, FiniteSets, TLC

\* formatStringWithData: its position, parameters, locals and return value
VARIABLES pc, template, data, dataToUse, lastIndex, out, result, calls, evals

\* parseTransformationArgs: its position ppc, its parameter argsString
\* (argText) and its locals args (argList), regex.lastIndex, inner
\* (innerText), arr (arrList) and arrRegex.lastIndex; the two lastIndex
\* fields are kept as the index of the next character, counted from 1
VARIABLES ppc, argText, argList, regexLastIndex, innerText, arrList,
          arrLastIndex

formatVars ==
  <<pc, template, data, dataToUse, lastIndex, out, result, calls, evals>>

parserVars ==
  <<ppc, argText, argList, regexLastIndex, innerText, arrList, arrLastIndex>>

vars == <<formatVars, parserVars>>

----------------------------------------------------------------------------
(* JavaScript values *)

Undefined == [t |-> "undef"]
Null == [t |-> "null"]
Bool(b) == [t |-> "bool", v |-> b]
Num(d) == [t |-> "num", v |-> d]
Str(s) == [t |-> "str", v |-> s]
Arr(a) == [t |-> "arr", v |-> a]
Obj(o) == [t |-> "obj", v |-> o]
Fn(name) == [t |-> "fn", v |-> name]
Thrown == [t |-> "throw"]

ERROR == <<"#","E","R","R","O","R">>

Whitespace == {" "}

\* \w of the regular expressions: [A-Za-z0-9_]
WordChars ==
  {"a","b","c","d","e","f","g","h","i","j","k","l","m","n","o","p","q","r",
   "s","t","u","v","w","x","y","z","A","B","C","D","E","F","G","H","I","J",
   "K","L","M","N","O","P","Q","R","S","T","U","V","W","X","Y","Z","0","1",
   "2","3","4","5","6","7","8","9","_"}

DigitChars == <<"0","1","2","3","4","5","6","7","8","9">>

----------------------------------------------------------------------------
(* String primitives of the host *)

SetMin(I) == CHOOSE i \in I : \A j \in I : i <= j

\* least index >= from whose character is in C; Len(s)+1 when there is none
NextIn(s, from, C) ==
  LET I == {i \in from..Len(s) : s[i] \in C}
  IN IF I = {} THEN Len(s) + 1 ELSE SetMin(I)

\* least index >= from whose character is not in C; Len(s)+1 when there is none
NextNotIn(s, from, C) ==
  LET I == {i \in from..Len(s) : s[i] \notin C}
  IN IF I = {} THEN Len(s) + 1 ELSE SetMin(I)

\* String.prototype.slice(from, to) on 1-based inclusive bounds
Slice(s, from, to) == IF from > to THEN <<>> ELSE SubSeq(s, from, to)

\* the whitespace at the head removed, that at the end kept
TrimStart(s) == Slice(s, NextNotIn(s, 1, Whitespace), Len(s))

\* String.prototype.trim
Trim(s) ==
  LET a == NextNotIn(s, 1, Whitespace)
      J == {i \in 1..Len(s) : s[i] \notin Whitespace}
  IN IF J = {} THEN <<>>
     ELSE Slice(s, a, CHOOSE i \in J : \A j \in J : j <= i)

StartsWith(s, c) == Len(s) >= 1 /\ s[1] = c
EndsWith(s, c) == Len(s) >= 1 /\ s[Len(s)] = c

\* s.slice(1, -1)
Unwrap(s) == Slice(s, 2, Len(s) - 1)

\* whether sep occurs in s at index i
OccursAt(s, sep, i) ==
  /\ i + Len(sep) - 1 <= Len(s)
  /\ \A k \in 1..Len(sep) : s[i + k - 1] = sep[k]

\* String.prototype.indexOf(sep, from): least index >= from, 0 when none
IndexOf(s, sep, from) ==
  LET I == {i \in from..Len(s) : OccursAt(s, sep, i)}
  IN IF I = {} THEN 0 ELSE SetMin(I)

RECURSIVE SplitFrom(_, _, _)
SplitFrom(s, sep, from) ==
  LET i == IndexOf(s, sep, from)
  IN IF i = 0 THEN <<Slice(s, from, Len(s))>>
     ELSE <<Slice(s, from, i - 1)>> \o SplitFrom(s, sep, i + Len(sep))

\* String.prototype.split(sep): an empty separator splits into characters
Split(s, sep) ==
  IF sep = <<>> THEN [i \in 1..Len(s) |-> <<s[i]>>]
  ELSE SplitFrom(s, sep, 1)

RECURSIVE Join(_, _)
\* Array.prototype.join(glue) of an array of strings
Join(parts, glue) ==
  IF Len(parts) = 0 THEN <<>>
  ELSE IF Len(parts) = 1 THEN parts[1]
  ELSE parts[1] \o glue \o Join(Tail(parts), glue)

----------------------------------------------------------------------------
(* Conversions of the host *)

\* the decimal text of a natural number kept as digits
NumberToString(d) == [i \in 1..Len(d) |-> DigitChars[d[i] + 1]]

\* Function.prototype.toString of a built-in function
FunctionToString(name) == <<"f","u","n","c","t","i","o","n"," ">> \o name \o <<"(",")"," ","{"," ","[","n","a","t","i","v","e"," ","c","o","d","e","]"," ","}">>

RECURSIVE ToStr(_)
RECURSIVE JoinValues(_)
\* Array.prototype.toString: elements joined by ",", null and undefined empty
JoinValues(a) ==
  IF Len(a) = 0 THEN <<>>
  ELSE (IF a[1].t \in {"undef", "null"} THEN <<>> ELSE ToStr(a[1]))
       \o (IF Len(a) = 1 THEN <<>> ELSE <<",">> \o JoinValues(Tail(a)))

\* String(value)
ToStr(x) ==
  CASE x.t = "undef" -> <<"u","n","d","e","f","i","n","e","d">>
    [] x.t = "null" -> <<"n","u","l","l">>
    [] x.t = "bool" -> IF x.v THEN <<"t","r","u","e">> ELSE <<"f","a","l","s","e">>
    [] x.t = "num" -> NumberToString(x.v)
    [] x.t = "str" -> x.v
    [] x.t = "arr" -> JoinValues(x.v)
    [] x.t = "obj" -> <<"[","o","b","j","e","c","t"," ","O","b","j","e","c","t","]">>
    [] x.t = "fn" -> FunctionToString(x.v)

\* ToBoolean(value)
Truthy(x) ==
  CASE x.t \in {"undef", "null"} -> FALSE
    [] x.t = "bool" -> x.v
    [] x.t = "num" -> x.v # <<0>>
    [] x.t = "str" -> x.v # <<>>
    [] OTHER -> TRUE

\* typeof value === "object" (true of null, false of functions)
TypeofObject(x) == x.t \in {"null", "arr", "obj"}

----------------------------------------------------------------------------
(* Property lookup: own properties and the prototype chain *)

\* properties every object inherits from Object.prototype
ObjectPrototypeKeys == {<<"c","o","n","s","t","r","u","c","t","o","r">>, <<"t","o","S","t","r","i","n","g">>, <<"h","a","s","O","w","n","P","r","o","p","e","r","t","y">>}

RECURSIVE DigitsValue(_)
DigitsValue(s) ==
  IF s = <<>> THEN 0
  ELSE 10 * DigitsValue(SubSeq(s, 1, Len(s) - 1))
       + (CHOOSE k \in 0..9 : DigitChars[k + 1] = s[Len(s)])

\* a canonical array index: decimal digits without a leading zero
IsIndexKey(key) ==
  /\ key # <<>>
  /\ \A i \in 1..Len(key) : \E k \in 1..10 : DigitChars[k] = key[i]
  /\ (Len(key) > 1 => key[1] # "0")

RECURSIVE NatDigits(_)
NatDigits(n) == IF n < 10 THEN <<n>> ELSE NatDigits(n \div 10) \o <<n % 10>>

\* own property keys of an object or array
HasOwn(x, key) ==
  CASE x.t = "obj" -> key \in DOMAIN x.v
    [] x.t = "arr" -> \/ key = <<"l","e","n","g","t","h">>
                      \/ IsIndexKey(key) /\ Len(key) <= 3
                                         /\ DigitsValue(key) < Len(x.v)
    [] OTHER -> FALSE

\* key in x, for x an object or array
In(key, x) == HasOwn(x, key) \/ key \in ObjectPrototypeKeys

\* x[key], for key in x
Get(x, key) ==
  IF HasOwn(x, key)
  THEN CASE x.t = "obj" -> x.v[key]
         [] x.t = "arr" -> IF key = <<"l","e","n","g","t","h">> THEN Num(NatDigits(Len(x.v)))
                           ELSE x.v[DigitsValue(key) + 1]
  ELSE IF key = <<"c","o","n","s","t","r","u","c","t","o","r">>
       THEN Fn(IF x.t = "arr" THEN <<"A","r","r","a","y">> ELSE <<"O","b","j","e","c","t">>)
       ELSE Fn(key)

----------------------------------------------------------------------------
(* resolveDataPath *)

RECURSIVE Traverse(_, _)
\* the for loop of resolveDataPath over the remaining parts
Traverse(current, parts) ==
  IF parts = <<>> THEN current
  ELSE IF Truthy(current) /\ TypeofObject(current) /\ In(parts[1], current)
       THEN Traverse(Get(current, parts[1]), Tail(parts))
       ELSE Undefined

RECURSIVE TraverseUnguarded(_, _)
\* the loop without the object test: "in" raises a TypeError on a primitive
TraverseUnguarded(current, parts) ==
  IF parts = <<>> THEN current
  ELSE IF current.t \notin {"arr", "obj", "fn"} THEN Thrown
  ELSE IF current.t # "fn" /\ In(parts[1], current)
       THEN TraverseUnguarded(Get(current, parts[1]), Tail(parts))
       ELSE Undefined

resolveDataPathUnguarded(d, path) ==
  IF path = <<>> THEN Undefined
  ELSE TraverseUnguarded(d, Split(path, <<".">>))

resolveDataPath(d, path) ==
  IF path = <<>> THEN Undefined
  ELSE Traverse(d, Split(path, <<".">>))

----------------------------------------------------------------------------
(* parseTransformationArgs *)

\* One regex.exec from lastIndex li of
\*   /\s*(\[[^\]]*\]|'[^']*'|[^,\s][^,]*)\s*(,|$)/g        (brackets = TRUE)
\*   /\s*('[^']*'|[^,\s][^,]*)\s*(,|$)/g                   (brackets = FALSE)
\* The search is unanchored, so the match starts at the first character p
\* that is neither whitespace nor a comma.  A delimited alternative matches
\* only when whitespace and then a comma or the end follow its closing
\* delimiter; otherwise the engine falls back to the unquoted alternative,
\* which runs to the next comma.  A match is [ok, token, next]: its first
\* group and lastIndex after it.

NoMatch(li) == [ok |-> FALSE, token |-> <<>>, next |-> li]

\* the match of the group s[p..q] followed by whitespace up to r
MatchTo(s, p, q, r) ==
  [ok |-> q <= Len(s) /\ (r > Len(s) \/ s[r] = ","),
   token |-> IF q <= Len(s) THEN Slice(s, p, q) ELSE <<>>,
   next |-> IF r > Len(s) THEN Len(s) + 1 ELSE r + 1]

DelimitedTo(s, p, q) == MatchTo(s, p, q, NextNotIn(s, q + 1, Whitespace))

\* [^,\s][^,]* at p: up to the next comma c
Unquoted(s, p) == MatchTo(s, p, NextIn(s, p + 1, {","}) - 1,
                          NextIn(s, p + 1, {","}))

\* the delimiters not recognised: the token runs to the next comma
DelimitedAsBare(s, p, close) == Unquoted(s, p)

\* \[[^\]]*\] or '[^']*' at p: up to the first closing delimiter
Delimited(s, p, close) == DelimitedTo(s, p, NextIn(s, p + 1, {close}))

\* the alternatives in the order of the regular expression
FirstMatch(m, alt) == IF m.ok THEN m ELSE alt

ExecAt(s, li, brackets, p) ==
  IF p > Len(s) THEN NoMatch(li)
  ELSE IF brackets /\ s[p] = "["
  THEN FirstMatch(Delimited(s, p, "]"), Unquoted(s, p))
  ELSE IF s[p] = "'"
  THEN FirstMatch(Delimited(s, p, "'"), Unquoted(s, p))
  ELSE Unquoted(s, p)

Exec(s, li, brackets) ==
  ExecAt(s, li, brackets, NextNotIn(s, li, Whitespace \cup {","}))

RECURSIVE ExecLoop(_, _, _)
RECURSIVE Collect(_, _, _)
\* the body of the loop for match m: its trimmed first group, then the rest
Collect(s, brackets, m) ==
  IF ~m.ok THEN <<>>
  ELSE <<Trim(m.token)>> \o ExecLoop(s, m.next, brackets)

\* the while loop over regex.exec from lastIndex li
ExecLoop(s, li, brackets) == Collect(s, brackets, Exec(s, li, brackets))

\* an element of an array literal: quotes removed when it is quoted
ParseElement(element) ==
  IF StartsWith(element, "'") /\ EndsWith(element, "'")
  THEN Str(Unwrap(element))
  ELSE Str(element)

ParseElements(elems) == Arr([i \in 1..Len(elems) |-> ParseElement(elems[i])])

\* the array literal with the trimmed interior inner
ParseArray(inner) ==
  IF inner = <<>> THEN Arr(<<>>) ELSE ParseElements(ExecLoop(inner, 1, FALSE))

\* one token of the argument text to its argument value
ParseToken(token) ==
  IF StartsWith(token, "[") /\ EndsWith(token, "]")
  THEN ParseArray(Trim(Unwrap(token)))
  ELSE IF StartsWith(token, "'") /\ EndsWith(token, "'")
  THEN Str(Unwrap(token))
  ELSE Str(token)

ParseTokens(tokens) == [i \in 1..Len(tokens) |-> ParseToken(tokens[i])]

parseTransformationArgs(argsString) == ParseTokens(ExecLoop(argsString, 1, TRUE))

----------------------------------------------------------------------------
(* Dates of the host: new Date(...), getTime, toLocaleDateString *)

\* a < b for natural numbers kept as digits
NumLess(a, b) ==
  \/ Len(a) < Len(b)
  \/ /\ Len(a) = Len(b)
     /\ \E i \in 1..Len(a) : /\ a[i] < b[i]
                             /\ \A j \in 1..(i - 1) : a[j] = b[j]

\* 1e11: below it a number is seconds, from it on milliseconds
SecondsLimit == <<1,0,0,0,0,0,0,0,0,0,0,0>>

\* 8.64e15: the largest time value of a valid Date
MaxTimeValue == <<8,6,4,0,0,0,0,0,0,0,0,0,0,0,0,0>>

MsPerDay == 86400000

\* value * 1000
TimesThousand(d) == IF d = <<0>> THEN d ELSE d \o <<0,0,0>>

RECURSIVE DivDays(_, _, _, _)
\* long division of a time value by MsPerDay: the day number since the epoch
DivDays(d, i, q, r) ==
  IF i > Len(d) THEN q
  ELSE LET cur == r * 10 + d[i]
       IN DivDays(d, i + 1, q * 10 + (cur \div MsPerDay), cur % MsPerDay)

InvalidDate == [valid |-> FALSE, day |-> 0]

\* new Date(ms) for a time value in milliseconds
DateOfTime(ms) ==
  IF NumLess(MaxTimeValue, ms) THEN InvalidDate
  ELSE [valid |-> TRUE, day |-> DivDays(ms, 1, 0, 0)]

\* day number of a civil date (proleptic Gregorian calendar)
DaysFromCivil(y0, m, d) ==
  LET y == IF m <= 2 THEN y0 - 1 ELSE y0
      era == y \div 400
      yoe == y - era * 400
      mp == IF m > 2 THEN m - 3 ELSE m + 9
      doy == (153 * mp + 2) \div 5 + d - 1
      doe == yoe * 365 + yoe \div 4 - yoe \div 100 + doy
  IN era * 146097 + doe - 719468

\* civil date <<year, month, day>> of a day number
CivilFromDays(days) ==
  LET z == days + 719468
      era == z \div 146097
      doe == z - era * 146097
      yoe == (doe - doe \div 1460 + doe \div 36524 - doe \div 146096) \div 365
      doy == doe - (365 * yoe + yoe \div 4 - yoe \div 100)
      mp == (5 * doy + 2) \div 153
      d == doy - (153 * mp + 2) \div 5 + 1
      m == IF mp < 10 THEN mp + 3 ELSE mp - 9
      y == yoe + era * 400 + (IF m <= 2 THEN 1 ELSE 0)
  IN <<y, m, d>>

IsDigitChar(c) == \E k \in 1..10 : DigitChars[k] = c

\* Date.parse of a string: the date-only ISO form YYYY-MM-DD is recognised;
\* the other strings of the model (no digits, no month names) are invalid.
DateParse(s) ==
  IF /\ Len(s) = 10
     /\ s[5] = "-" /\ s[8] = "-"
     /\ \A i \in {1,2,3,4,6,7,9,10} : IsDigitChar(s[i])
  THEN LET y == DigitsValue(SubSeq(s, 1, 4))
           m == DigitsValue(SubSeq(s, 6, 7))
           d == DigitsValue(SubSeq(s, 9, 10))
       IN IF m \in 1..12 /\ d \in 1..31
          THEN [valid |-> TRUE, day |-> DaysFromCivil(y, m, d)]
          ELSE InvalidDate
  ELSE InvalidDate

\* new Date(value) for a value that is not a number: a boolean converts to
\* the time value 0 or 1, anything else to its string, which is parsed
DateOfValue(x) ==
  IF x.t = "bool" THEN DateOfTime(IF x.v THEN <<1>> ELSE <<0>>)
  ELSE DateParse(ToStr(x))

\* month/day/year of the civil date c = <<year, month, day>>
FormatCivil(c) ==
  NumberToString(NatDigits(c[2])) \o <<"/">> \o NumberToString(NatDigits(c[3]))
  \o <<"/">> \o NumberToString(NatDigits(c[1]))

\* Date.prototype.toLocaleDateString
toLocaleDateString(day) == FormatCivil(CivilFromDays(day))

----------------------------------------------------------------------------
(* defaultTransformations *)

\* a falsy test in place of the undefined/null test
TransformDefaultFalsy(value, args) ==
  IF ~Truthy(value)
  THEN IF Len(args) >= 1 THEN args[1] ELSE Undefined
  ELSE Str(ToStr(value))

\* default: (value, defaultValue) => ...
TransformDefault(value, args) ==
  IF value.t \in {"undef", "null"}
  THEN IF Len(args) >= 1 THEN args[1] ELSE Undefined
  ELSE Str(ToStr(value))

\* the end of date: "#ERROR" for an invalid Date, its rendering otherwise
RenderDate(date) ==
  IF ~date.valid THEN Str(ERROR) ELSE Str(toLocaleDateString(date.day))

\* the limit itself read as seconds
TransformDateInclusive(value) ==
  IF (value.t = "str" /\ value.v = <<>>) \/ value.t \in {"undef", "null"}
  THEN Str(<<>>)
  ELSE RenderDate(IF value.t = "num"
                  THEN IF NumLess(value.v, SecondsLimit)
                          \/ value.v = SecondsLimit
                       THEN DateOfTime(TimesThousand(value.v))
                       ELSE DateOfTime(value.v)
                  ELSE DateOfValue(value))

\* date: (value) => ...
TransformDate(value) ==
  IF (value.t = "str" /\ value.v = <<>>) \/ value.t \in {"undef", "null"}
  THEN Str(<<>>)
  ELSE RenderDate(IF value.t = "num"
                  THEN IF NumLess(value.v, SecondsLimit)
                       THEN DateOfTime(TimesThousand(value.v))
                       ELSE DateOfTime(value.v)
                  ELSE DateOfValue(value))

\* the first two items of a sequence, undefined where there is none
FirstTwo(items) ==
  [search |-> IF Len(items) >= 1 THEN items[1] ELSE Undefined,
   replace |-> IF Len(items) >= 2 THEN items[2] ELSE Undefined]

\* const [search, replace] = pair: an array yields its elements, a string
\* its characters
Destructure(pair) ==
  FirstTwo(IF pair.t = "str" THEN [i \in 1..Len(pair.v) |-> Str(<<pair.v[i]>>)]
           ELSE pair.v)

\* only the first occurrence replaced
ReplaceWithFirstOnly(str, sr) ==
  LET search == ToStr(sr.search)
      i == IndexOf(str, search, 1)
  IN IF (sr.search.t = "str" /\ sr.search.v = <<>>) \/ i = 0 THEN str
     ELSE Slice(str, 1, i - 1) \o ToStr(sr.replace)
          \o Slice(str, i + Len(search), Len(str))

\* the replacement made without the test for an empty search string
ReplaceWithUnguarded(str, sr) ==
  Join(Split(str, ToStr(sr.search)), ToStr(sr.replace))

\* if (search !== "") result = result.split(search).join(replace)
ReplaceWith(str, sr) ==
  IF ~(sr.search.t = "str" /\ sr.search.v = <<>>)
  THEN Join(Split(str, ToStr(sr.search)), ToStr(sr.replace))
  ELSE str

\* one iteration of the loop of replace
ReplaceOne(str, pair) == ReplaceWith(str, Destructure(pair))

RECURSIVE ReplaceLoop(_, _)
ReplaceLoop(str, pairs) ==
  IF pairs = <<>> THEN str
  ELSE ReplaceLoop(ReplaceOne(str, pairs[1]), Tail(pairs))

\* replace: (value, ...replacePairs) => ...; iterating a pair that is
\* not iterable raises a TypeError
TransformReplace(value, pairs) ==
  IF \E i \in 1..Len(pairs) : pairs[i].t \notin {"str", "arr"} THEN Thrown
  ELSE Str(ReplaceLoop(IF value.t \in {"undef", "null"} THEN <<>> ELSE ToStr(value),
                       pairs))

TransformationNames == {<<"d","e","f","a","u","l","t">>, <<"d","a","t","e">>, <<"r","e","p","l","a","c","e">>}

\* a lookup that also finds the names every object inherits
HasTransformationInherited(name) ==
  name \in TransformationNames \cup ObjectPrototypeKeys

\* defaultTransformations.hasOwnProperty(transformName)
HasTransformation(name) == name \in TransformationNames

\* transformation(dataValue, ...remainingArgs); an inherited function called
\* without a receiver is Object.prototype.toString's "[object Undefined]"
CallTransformation(name, value, args) ==
  CASE name = <<"d","e","f","a","u","l","t">> -> TransformDefault(value, args)
    [] name = <<"d","a","t","e">> -> TransformDate(value)
    [] name = <<"r","e","p","l","a","c","e">> -> TransformReplace(value, args)
    [] OTHER -> Str(<<"[","o","b","j","e","c","t"," ","U","n","d","e","f","i","n","e","d","]">>)

----------------------------------------------------------------------------
(* The replace callback of formatStringWithData *)

\* trimmedContent.match(/^(\w+)\((.*)\)$/): the name is the longest run of
\* word characters, the arguments lie between the "(" after it, at index n,
\* and the final ")".  The index of the "(" is returned, 0 for no match.
MatchAtParen(trimmed, n) ==
  IF n >= 2 /\ n < Len(trimmed) /\ trimmed[n] = "("
     /\ trimmed[Len(trimmed)] = ")"
  THEN n ELSE 0

TransformationMatch(trimmed) ==
  MatchAtParen(trimmed, NextNotIn(trimmed, 1, WordChars))

\* What the callback returns is a record: val is the returned value (Thrown
\* when the callback raises), calls lists the helpers it ran.

\* value !== undefined && value !== null ? String(value) : ""
KeyResult(value) ==
  [val |-> IF value.t = "throw" THEN Thrown
           ELSE IF value.t \notin {"undef", "null"} THEN Str(ToStr(value))
           ELSE Str(<<>>),
   calls |-> <<"resolveDataPath">>]

\* a truthiness test in place of the undefined/null test
EvaluateKeyTruthy(trimmedContent, d) ==
  LET value == resolveDataPath(d, trimmedContent)
  IN [val |-> IF value.t = "throw" THEN Thrown
              ELSE IF Truthy(value) THEN Str(ToStr(value))
              ELSE Str(<<>>),
      calls |-> <<"resolveDataPath">>]

\* the else branch of the callback: a simple or hierarchical key
EvaluateKey(trimmedContent, d) == KeyResult(resolveDataPath(d, trimmedContent))

\* try { return transformation(dataValue, ...remainingArgs) }
\* catch { return "#ERROR" }
TryResult(returned, ran) ==
  [val |-> IF returned.t = "throw" THEN Str(ERROR) ELSE returned,
   calls |-> ran \o <<"transformation">>]

\* the call once the key is resolved; a resolver that raises is outside
\* the try block
TransformValue(transformName, dataValue, remainingArgs, ran) ==
  IF dataValue.t = "throw" THEN [val |-> Thrown, calls |-> ran]
  ELSE TryResult(CallTransformation(transformName, dataValue, remainingArgs),
                 ran)

\* const dataValue = keyArg ? resolveDataPath(dataToUse, String(keyArg))
\*                          : undefined
TransformKeyed(transformName, keyArg, remainingArgs, d) ==
  IF Truthy(keyArg)
  THEN TransformValue(transformName, resolveDataPath(d, ToStr(keyArg)),
                      remainingArgs,
                      <<"parseTransformationArgs", "resolveDataPath">>)
  ELSE TransformValue(transformName, Undefined, remainingArgs,
                      <<"parseTransformationArgs">>)

\* keyArg is the first parsed argument, "" when there is none
TransformParsed(transformName, parsedArgs, d) ==
  IF Len(parsedArgs) > 0
  THEN TransformKeyed(transformName, parsedArgs[1], Tail(parsedArgs), d)
  ELSE TransformKeyed(transformName, Str(<<>>), <<>>, d)

\* the transformation branch of the callback
EvaluateTransformation(transformName, argsString, d) ==
  IF ~HasTransformation(transformName)
  THEN [val |-> Str(ERROR), calls |-> <<>>]
  ELSE TransformParsed(transformName, parseTransformationArgs(argsString), d)

\* the callback after the trim, open being the index of the "(" of a
\* transformation call, 0 for a key
EvaluateTrimmed(trimmedContent, open, d) ==
  IF trimmedContent = <<>> THEN [val |-> Str(<<>>), calls |-> <<>>]
  ELSE IF open # 0
  THEN EvaluateTransformation(
         Slice(trimmedContent, 1, open - 1),
         Slice(trimmedContent, open + 1, Len(trimmedContent) - 1), d)
  ELSE EvaluateKey(trimmedContent, d)

\* the callback applied to the text between the braces
EvaluatePlaceholder(placeholderContent, d) ==
  EvaluateTrimmed(Trim(placeholderContent),
                  TransformationMatch(Trim(placeholderContent)), d)

----------------------------------------------------------------------------
(* template.replace(/{{([^{}]*?)}}/g, callback) *)

Braces == {"{", "}"}

\* the least element of I, 0 when it is empty
MinOrZero(I) == IF I = {} THEN 0 ELSE SetMin(I)

\* whether a match that starts at i closes at j, the first brace after "{{"
ClosesAt(t, i, j) ==
  IF i + 1 <= Len(t) /\ t[i] = "{" /\ t[i + 1] = "{"
     /\ j + 1 <= Len(t) /\ t[j] = "}" /\ t[j + 1] = "}"
  THEN j ELSE 0

\* a body that may hold braces: the first "}}" after "{{" closes the match
CloseOfAnyBody(t, i) ==
  IF i + 1 <= Len(t) /\ t[i] = "{" /\ t[i + 1] = "{"
  THEN MinOrZero({j \in (i + 2)..(Len(t) - 1) : t[j] = "}" /\ t[j + 1] = "}"})
  ELSE 0

\* the index of the closing "}}" of a match that starts at i, 0 when the
\* regular expression does not match at i
CloseOf(t, i) == ClosesAt(t, i, NextIn(t, i + 2, Braces))

\* the search of a regular expression without the g flag: one match only
FindMatchOnce(t, from) ==
  LET I == {i \in 1..Len(t) : CloseOf(t, i) # 0}
  IN IF from # 1 \/ I = {} THEN 0 ELSE SetMin(I)

\* the start of the leftmost match at or after from, 0 when there is none
FindMatch(t, from) == MinOrZero({i \in from..Len(t) : CloseOf(t, i) # 0})

\* text of the template with its placeholders replaced in one pass over d:
\* the text that follows the match starting at i and closing at j
RECURSIVE TextFrom(_, _, _)
TextAfter(t, i, j, d, from) ==
  Slice(t, from, i - 1)
  \o ToStr(EvaluatePlaceholder(Slice(t, i + 2, j - 1), d).val)
  \o TextFrom(t, j + 2, d)

TextAt(t, i, d, from) ==
  IF i = 0 THEN Slice(t, from, Len(t))
  ELSE TextAfter(t, i, CloseOf(t, i), d, from)

\* the template from index from on with its placeholders replaced over d
TextFrom(t, from, d) == TextAt(t, FindMatch(t, from), d, from)


----------------------------------------------------------------------------
(* Inputs of the model *)

MaxParts == 2
MaxDepth == 2
MaxPairs == 2

DocMain ==
  Obj((<<"n","a","m","e">> :> Str(<<"J","o","h","n"," ","D","o","e">>)) @@ (<<"a","g","e">> :> Num(<<3,0>>))
      @@ (<<"a","c","t","i","v","e">> :> Bool(FALSE)) @@ (<<"z","e","r","o">> :> Num(<<0>>))
      @@ (<<"e","m","p","t","y">> :> Str(<<>>)) @@ (<<"n","o","t","h","i","n","g">> :> Null)
      @@ (<<"a","d","d","r","e","s","s">> :> Obj((<<"c","i","t","y">> :> Str(<<"N","Y">>))))
      @@ (<<"i","t","e","m","s">> :> Arr(<<Str(<<"a","p","p","l","e">>), Str(<<"b","a","n","a","n","a">>)>>))
      @@ (<<"d">> :> Str(<<"T","h","i","s"," ","i","s"," ","a"," ","t","e","s","t",".">>))
      @@ (<<"t">> :> Num(<<1,6,7,8,8,8,6,4,0,0>>))
      @@ (<<"m","s">> :> Num(<<1,6,7,8,8,8,6,4,0,0,0,0,0>>))
      @@ (<<"i","s","o">> :> Str(<<"2","0","2","3","-","0","3","-","1","5">>)))

\* numbers around 1e11, the limit between seconds and milliseconds, and
\* around the largest time value
DocTimes ==
  Obj((<<"t">> :> Num(<<1,6,7,8,8,8,6,4,0,0>>))
      @@ (<<"m","s">> :> Num(<<1,6,7,8,8,8,6,4,0,0,0,0,0>>))
      @@ (<<"s","8">> :> Num(<<1,0,0,0,0,0,0,0,0>>))
      @@ (<<"b","e","l","o","w">> :> Num(<<9,9,9,9,9,9,9,9,9,9,9>>))
      @@ (<<"l","i","m","i","t">> :> Num(<<1,0,0,0,0,0,0,0,0,0,0,0>>))
      @@ (<<"a","b","o","v","e">> :> Num(<<1,0,0,0,0,0,0,0,0,0,0,1>>))
      @@ (<<"z","e","r","o">> :> Num(<<0>>))
      @@ (<<"h","u","g","e">> :> Num(<<8,6,4,0,0,0,0,0,0,0,0,0,0,0,0,1>>)))

\* values that hold braces: a whole placeholder, the head of one, one
\* that a replacement completes
DocBraces ==
  Obj((<<"n","a","m","e">> :> Str(<<"J","o","h","n"," ","D","o","e">>)) @@ (<<"t","p","l">> :> Str(<<"{","{","n","a","m","e","}","}">>))
      @@ (<<"h","e","a","d">> :> Str(<<"{","{","n","a">>)) @@ (<<"s","p">> :> Str(<<"{"," ","{","n","a","m","e","}"," ","}">>))
      @@ (<<"c","a","l","l">> :> Str(<<"{","{","d","e","f","a","u","l","t","(","m","i","s","s","i","n","g",","," ","'","X","'",")","}","}">>)))

\* the data documents: the main one, {}, undefined, null, an array, a
\* string, the timestamps, the values with braces
Docs == <<DocMain, Obj(<<>>), Undefined, Null, Arr(<<Str(<<"x">>), Str(<<"y">>)>>),
          Str(<<"t","e","x","t">>), DocTimes, DocBraces>>

RECURSIVE Flatten(_)
Flatten(ss) == IF ss = <<>> THEN <<>> ELSE ss[1] \o Flatten(Tail(ss))

SeqsUpTo(S, n) == UNION {[1..k -> S] : k \in 1..n}

\* pieces of text that templates are assembled from
Pieces ==
  {<<"H","i"," ">>, <<"{","{","n","a","m","e","}","}">>, <<"{","{"," ","a","g","e"," ","}","}">>, <<"{","{","}","}">>, <<"{","{","m","i","s","s","i","n","g","}","}">>,
   <<"{","{","d","a","t","e","(","n","a","m","e",")","}","}">>, <<"{","{","b","o","g","u","s","(","n","a","m","e",")","}","}">>, <<"{","{","d","e","f","a","u","l","t","(","m","i","s","s","i","n","g",","," ","'","X","'",")","}","}">>,
   <<"{","{","d","e","f","a","u","l","t","(","m","i","s","s","i","n","g",")","}","}">>, <<"{","{","r","e","p","l","a","c","e","(","d",","," ","'","s","'",")","}","}">>, <<"{","{","n","a","m","e">>, <<"}","}">>, <<"{">>}

GeneralTemplates == {Flatten(ps) : ps \in SeqsUpTo(Pieces, MaxParts)}

Segments ==
  {<<"n","a","m","e">>, <<"a","g","e">>, <<"a","c","t","i","v","e">>, <<"z","e","r","o">>, <<"e","m","p","t","y">>, <<"n","o","t","h","i","n","g">>, <<"a","d","d","r","e","s","s">>,
   <<"c","i","t","y">>, <<"i","t","e","m","s">>, <<"0">>, <<"5">>, <<"l","e","n","g","t","h">>, <<"m","i","s","s","i","n","g">>, <<"c","o","n","s","t","r","u","c","t","o","r">>,
   <<"t","o","S","t","r","i","n","g">>}

Paths == {Join(segs, <<".">>) : segs \in SeqsUpTo(Segments, MaxDepth)}

PathTemplates == {<<"{","{">> \o p \o <<"}","}">> : p \in Paths}

Keys ==
  {<<"n","a","m","e">>, <<"a","g","e">>, <<"a","c","t","i","v","e">>, <<"z","e","r","o">>, <<"e","m","p","t","y">>, <<"n","o","t","h","i","n","g">>, <<"m","i","s","s","i","n","g">>,
   <<"a","d","d","r","e","s","s",".","c","i","t","y">>, <<"a","d","d","r","e","s","s",".","s","t","r","e","e","t">>, <<"i","t","e","m","s",".","0">>, <<"i","t","e","m","s">>, <<"a","d","d","r","e","s","s">>,
   <<"t">>, <<"m","s">>, <<"i","s","o">>, <<"t","o","S","t","r","i","n","g">>, <<"d">>}

Fallbacks == {<<"X">>, <<>>, <<"a",","," ","b">>}

DefaultTemplates ==
  {<<"{","{","d","e","f","a","u","l","t","(">> \o k \o <<","," ","'">> \o f \o <<"'",")","}","}">> : k \in Keys, f \in Fallbacks}

DateTemplates == {<<"{","{","d","a","t","e","(">> \o k \o <<")","}","}">> : k \in Keys}

TimeKeys == {<<"t">>, <<"m","s">>, <<"s","8">>, <<"b","e","l","o","w">>, <<"l","i","m","i","t">>, <<"a","b","o","v","e">>, <<"z","e","r","o">>,
             <<"h","u","g","e">>}

TimeTemplates == {<<"{","{","d","a","t","e","(">> \o k \o <<")","}","}">> : k \in TimeKeys}

UnknownNames == {<<"b","o","g","u","s">>, <<"t","o","S","t","r","i","n","g">>, <<"c","o","n","s","t","r","u","c","t","o","r">>, <<"h","a","s","O","w","n","P","r","o","p","e","r","t","y">>,
                 <<"D","a","t","e">>, <<"d","e","f","a","u","l","t","s">>}

ArgTexts == {<<>>, <<"n","a","m","e">>, <<"m","i","s","s","i","n","g",","," ","'","X","'">>, <<"d",","," ","[","'","i","s","'",","," ","'","W","A","S","'","]">>}

UnknownTemplates ==
  {<<"{","{">> \o n \o <<"(">> \o a \o <<")","}","}">> : n \in UnknownNames, a \in ArgTexts}

\* search and replacement strings of the replace pairs
PairStrings == {<<<<"i","s">>, <<"W","A","S">>>>, <<<<"t","e","s","t">>, <<"T">>>>, <<<<>>, <<"Z">>>>,
                <<<<"s">>, <<"s","s">>>>, <<<<"z">>, <<"Z">>>>}

PairText(p) == <<","," ","[","'">> \o p[1] \o <<"'",","," ","'">> \o p[2] \o <<"'","]">>

ReplaceKeys == {<<"d">>, <<"a","c","t","i","v","e">>, <<"m","i","s","s","i","n","g">>, <<"n","o","t","h","i","n","g">>}

ReplaceTemplateOf(k, ps) ==
  <<"{","{","r","e","p","l","a","c","e","(">> \o k \o Flatten([i \in 1..Len(ps) |-> PairText(ps[i])]) \o <<")","}","}">>

ReplaceTemplates ==
  {ReplaceTemplateOf(k, ps) :
     k \in ReplaceKeys, ps \in {<<>>} \cup SeqsUpTo(PairStrings, MaxPairs)}

\* default called without a fallback argument
DefaultNoFallback ==
  {<<"{","{","d","e","f","a","u","l","t","(","m","i","s","s","i","n","g",")","}","}">>, <<"{","{","d","e","f","a","u","l","t","(","n","o","t","h","i","n","g",")","}","}">>, <<"{","{","d","e","f","a","u","l","t","(",")","}","}">>}

\* replace called with an argument that is not a two-element string array
ReplaceBadPair ==
  {<<"{","{","r","e","p","l","a","c","e","(","d",","," ","'","s","'",")","}","}">>, <<"{","{","r","e","p","l","a","c","e","(","d",","," ","[","'","s","'","]",")","}","}">>, <<"{","{","r","e","p","l","a","c","e","(","d",","," ","s",")","}","}">>,
   <<"{","{","r","e","p","l","a","c","e","(","d",","," ","[","'","s","'",","," ","'","S","'",","," ","'","x","'","]",","," ","i","s",")","}","}">>}

\* other calls whose arguments do not fit the transformation
OtherCalls ==
  {<<"{","{","d","e","f","a","u","l","t","(","m","i","s","s","i","n","g",","," ","[","'","a","'",","," ","'","b","'","]",")","}","}">>, <<"{","{","d","e","f","a","u","l","t","(",","," ","'","X","'",")","}","}">>, <<"{","{","d","a","t","e","(",")","}","}">>,
   <<"{","{","d","a","t","e","(","n","a","m","e",","," ","'","x","'",")","}","}">>, <<"{","{","r","e","p","l","a","c","e","(","d",","," ","[","]",")","}","}">>, <<"{","{","r","e","p","l","a","c","e","(",")","}","}">>}

\* braces that form no placeholder
UnmatchedTemplates ==
  {<<"{","{","n","a","m","e","}">>, <<"{","n","a","m","e","}","}">>, <<"{","{","n","a","{","m","e","}","}">>, <<"{","{","n","a","}","m","e","}","}">>, <<"{"," ","{","n","a","m","e","}"," ","}">>,
   <<"{","{","n","a","m","e","}"," ","}">>, <<"{","{"," ","n","a","m","e">>, <<"J","o","h","n"," ","{","n","a","m","e","}">>}

\* placeholder bodies, keys and calls, and the spaces put around them
Bodies ==
  {<<"n","a","m","e">>, <<"a","d","d","r","e","s","s",".","c","i","t","y">>, <<"m","i","s","s","i","n","g">>, <<"z","e","r","o">>, <<"t","o","S","t","r","i","n","g">>,
   <<"d","e","f","a","u","l","t","(","m","i","s","s","i","n","g",","," ","'","X","'",")">>, <<"d","a","t","e","(","t",")">>, <<"d","a","t","e","(","n","a","m","e",")">>,
   <<"r","e","p","l","a","c","e","(","d",","," ","[","'","i","s","'",","," ","'","W","A","S","'","]",")">>, <<"b","o","g","u","s","(","n","a","m","e",")">>}

Pads == {<<<<>>, <<>>>>, <<<<" ">>, <<" ">>>>, <<<<>>, <<" ">>>>, <<<<" ">>, <<>>>>,
         <<<<" "," ">>, <<" "," "," ">>>>}

PaddedTemplates ==
  {<<"{","{">> \o p[1] \o b \o p[2] \o <<"}","}">> : b \in Bodies, p \in Pads}

BlankTemplates == {<<"{","{","}","}">>, <<"{","{"," ","}","}">>, <<"{","{"," "," "," ","}","}">>}

BraceKeys == {<<"t","p","l">>, <<"h","e","a","d">>, <<"s","p">>, <<"c","a","l","l">>}

\* templates whose replacement texts hold braces
BraceTemplates ==
  {<<"{","{">> \o k \o <<"}","}">> : k \in BraceKeys}
  \cup {<<"{","{","t","p","l","}","}","{","{","n","a","m","e","}","}">>, <<"{","{","h","e","a","d","}","}","m","e","}","}">>, <<"{","{","d","e","f","a","u","l","t","(","t","p","l",","," ","'","X","'",")","}","}">>,
        <<"{","{","r","e","p","l","a","c","e","(","s","p",","," ","[","'"," ","'",","," ","'","'","]",")","}","}">>, <<"{","{","d","e","f","a","u","l","t","(","m","i","s","s","i","n","g",","," ","'","{","{","n","a","m","e","}","}","'",")","}","}">>,
        <<"{","{","r","e","p","l","a","c","e","(","c","a","l","l",","," ","[","'","X","'",","," ","'","Y","'","]",")","}","}"," ","{","{","n","a","m","e","}","}">>}

MismatchTemplates == DefaultNoFallback \cup ReplaceBadPair \cup OtherCalls

Templates ==
  GeneralTemplates \cup PathTemplates \cup DefaultTemplates \cup DateTemplates
  \cup TimeTemplates \cup UnmatchedTemplates \cup PaddedTemplates
  \cup BlankTemplates \cup BraceTemplates
  \cup UnknownTemplates \cup ReplaceTemplates \cup MismatchTemplates

MaxArgs == 2

\* arguments in the three forms of the parser, each with the value it
\* stands for: bare tokens, quoted literals, array literals
WellFormedArgs ==
  {<<<<"n","a","m","e">>, Str(<<"n","a","m","e">>)>>,
   <<<<" ","a","d","d","r","e","s","s",".","c","i","t","y"," ">>, Str(<<"a","d","d","r","e","s","s",".","c","i","t","y">>)>>,
   <<<<"a"," ","b">>, Str(<<"a"," ","b">>)>>,
   <<<<"'","X","'">>, Str(<<"X">>)>>,
   <<<<" ","'","a",","," ","b","'"," ">>, Str(<<"a",","," ","b">>)>>,
   <<<<"'","'">>, Str(<<>>)>>,
   <<<<"'","[","x",","," ","y","]","'">>, Str(<<"[","x",","," ","y","]">>)>>,
   <<<<"[","'","x","'",","," ","'","X","'","]">>, Arr(<<Str(<<"x">>), Str(<<"X">>)>>)>>,
   <<<<" ","["," ","'","a",",","b","'"," ",","," ","c"," ","d"," ","]"," ">>, Arr(<<Str(<<"a",",","b">>), Str(<<"c"," ","d">>)>>)>>,
   <<<<"[","'","'",","," ","'","Z","'","]">>, Arr(<<Str(<<>>), Str(<<"Z">>)>>)>>,
   <<<<"[","]">>, Arr(<<>>)>>,
   <<<<"["," ","]">>, Arr(<<>>)>>}

\* empty segments and texts with unbalanced or misplaced quotes and brackets
OtherArgs ==
  {<<>>, <<" ">>, <<"'","i","t">>, <<"[","x">>, <<"x","]">>, <<"'","a","'","b">>, <<"'","a",","," ","b","'","c">>, <<"[","'","a","]","'",","," ","'","b","'","]">>,
   <<"[","[","a",",","b","]",",","c","]">>, <<"[","a",",",",","b","]">>, <<"'">>}

ArgPieces == {w[1] : w \in WellFormedArgs} \cup OtherArgs

\* the argument texts the parser is called with
ArgStrings == {Join(ps, <<",">>) : ps \in SeqsUpTo(ArgPieces, MaxArgs)}

----------------------------------------------------------------------------
(* The call as a state machine *)

\* no call of the parser under way
ParserIdle ==
  /\ ppc = "idle"
  /\ argText = <<>>
  /\ argList = <<>>
  /\ regexLastIndex = 1
  /\ innerText = <<>>
  /\ arrList = <<>>
  /\ arrLastIndex = 1

Init ==
  /\ ParserIdle
  /\ pc = "idle"
  /\ template = Undefined
  /\ data = Undefined
  /\ dataToUse = Undefined
  /\ lastIndex = 1
  /\ out = <<>>
  /\ result = Undefined
  /\ calls = <<>>
  /\ evals = 0

\* formatStringWithData(template, data) is called
Call ==
  /\ pc = "idle"
  /\ \/ template' = Undefined
     \/ \E t \in Templates \cup {<<>>} : template' = Str(t)
  /\ \E i \in 1..Len(Docs) : data' = Docs[i]
  /\ pc' = "called"
  /\ UNCHANGED <<dataToUse, lastIndex, out, result, calls, evals>>
  /\ UNCHANGED parserVars

\* if (!template) return ""
ReturnEmpty ==
  /\ pc = "called"
  /\ ~Truthy(template)
  /\ result' = Str(<<>>)
  /\ pc' = "done"
  /\ UNCHANGED <<template, data, dataToUse, lastIndex, out, calls, evals>>
  /\ UNCHANGED parserVars

\* const dataToUse = data || {}; the replace starts at the head of template
BeginReplace ==
  /\ pc = "called"
  /\ Truthy(template)
  /\ dataToUse' = IF Truthy(data) THEN data ELSE Obj(<<>>)
  /\ lastIndex' = 1
  /\ pc' = "scan"
  /\ UNCHANGED <<template, data, out, result, calls, evals>>
  /\ UNCHANGED parserVars

\* a callback that keeps its last result in the document
DocumentAfterCached(d, e) ==
  IF d.t = "obj" THEN Obj((<<"_","l","a","s","t">> :> e.val) @@ d.v) ELSE d

\* the document d after the callback returned e: the callback and
\* resolveDataPath read the document and assign to their locals only
DocumentAfter(d, e) == d

\* the replacement text formatted again before it is inserted
ReplacedRescanned(t, i, j, e) ==
  /\ dataToUse' = dataToUse
  /\ data' = data
  /\ calls' = calls \o e.calls
  /\ evals' = evals + 1
  /\ out' = out \o Slice(t, lastIndex, i - 1)
               \o TextFrom(ToStr(e.val), 1, dataToUse)
  /\ lastIndex' = j + 2
  /\ UNCHANGED <<pc, result>>

\* the match t[i..j+1] is replaced: the text before it is copied and the
\* callback's result e, converted to a string, takes the place of the match;
\* a callback that raises ends the call; dataToUse is the caller's object
\* unless data was falsy
Replaced(t, i, j, e) ==
  /\ dataToUse' = DocumentAfter(dataToUse, e)
  /\ data' = IF Truthy(data) THEN DocumentAfter(dataToUse, e) ELSE data
  /\ calls' = calls \o e.calls
  /\ evals' = evals + 1
  /\ IF e.val.t = "throw"
     THEN /\ pc' = "raised"
          /\ result' = Thrown
          /\ UNCHANGED <<out, lastIndex>>
     ELSE /\ out' = out \o Slice(t, lastIndex, i - 1) \o ToStr(e.val)
          /\ lastIndex' = j + 2
          /\ UNCHANGED <<pc, result>>

\* the match that starts at i and closes at j
MatchFound(t, i, j) ==
  /\ i # 0
  /\ Replaced(t, i, j, EvaluatePlaceholder(Slice(t, i + 2, j - 1), dataToUse))

MatchFrom(t, i) == MatchFound(t, i, CloseOf(t, i))

\* the next match of the regular expression in the template
ReplaceMatch ==
  /\ pc = "scan"
  /\ MatchFrom(template.v, FindMatch(template.v, lastIndex))
  /\ UNCHANGED template
  /\ UNCHANGED parserVars

\* no further match: the rest of the template is copied and returned
Finish ==
  /\ pc = "scan"
  /\ FindMatch(template.v, lastIndex) = 0
  /\ out' = out \o Slice(template.v, lastIndex, Len(template.v))
  /\ result' = Str(out')
  /\ pc' = "done"
  /\ UNCHANGED <<template, data, dataToUse, lastIndex, calls, evals>>
  /\ UNCHANGED parserVars

Next == Call \/ ReturnEmpty \/ BeginReplace \/ ReplaceMatch \/ Finish

Spec == Init /\ [][Next]_vars


----------------------------------------------------------------------------
(* parseTransformationArgs as a state machine: one step per regex.exec *)

\* parseTransformationArgs(argsString) is called
ParseCall ==
  /\ ppc = "idle"
  /\ \E s \in ArgStrings : argText' = s
  /\ argList' = <<>>
  /\ regexLastIndex' = 1
  /\ ppc' = "outer"
  /\ UNCHANGED <<innerText, arrList, arrLastIndex>>
  /\ UNCHANGED formatVars

\* whether the trimmed token is an array literal with a non-empty interior
IsFilledArray(token) ==
  StartsWith(token, "[") /\ EndsWith(token, "]") /\ Trim(Unwrap(token)) # <<>>

\* regex.exec returns null: lastIndex is reset and args is returned
ReturnFor(m) ==
  /\ ~m.ok
  /\ regexLastIndex' = 1
  /\ ppc' = "returned"
  /\ UNCHANGED <<argText, argList, innerText, arrList, arrLastIndex>>

ParseReturn ==
  /\ ppc = "outer"
  /\ ReturnFor(Exec(argText, regexLastIndex, TRUE))
  /\ UNCHANGED formatVars

\* the token pushed with lastIndex left where it was
PushForStuck(m, token) ==
  /\ m.ok
  /\ ~IsFilledArray(token)
  /\ argList' = Append(argList, ParseToken(token))
  /\ UNCHANGED <<ppc, argText, regexLastIndex, innerText, arrList,
                 arrLastIndex>>

\* a match whose token is an empty array, a quoted string or a bare token
PushFor(m, token) ==
  /\ m.ok
  /\ ~IsFilledArray(token)
  /\ argList' = Append(argList, ParseToken(token))
  /\ regexLastIndex' = m.next
  /\ UNCHANGED <<ppc, argText, innerText, arrList, arrLastIndex>>

PushOf(m) == PushFor(m, Trim(m.token))

PushToken ==
  /\ ppc = "outer"
  /\ PushOf(Exec(argText, regexLastIndex, TRUE))
  /\ UNCHANGED formatVars

\* a match whose token is an array literal: the inner loop starts
BeginFor(m, token) ==
  /\ m.ok
  /\ IsFilledArray(token)
  /\ innerText' = Trim(Unwrap(token))
  /\ arrList' = <<>>
  /\ arrLastIndex' = 1
  /\ regexLastIndex' = m.next
  /\ ppc' = "inner"
  /\ UNCHANGED <<argText, argList>>

BeginOf(m) == BeginFor(m, Trim(m.token))

BeginArray ==
  /\ ppc = "outer"
  /\ BeginOf(Exec(argText, regexLastIndex, TRUE))
  /\ UNCHANGED formatVars

\* arrRegex.exec matches: the element is pushed to arr
ElementFor(m) ==
  /\ m.ok
  /\ arrList' = Append(arrList, ParseElement(Trim(m.token)))
  /\ arrLastIndex' = m.next
  /\ UNCHANGED <<ppc, argText, argList, regexLastIndex, innerText>>

PushElement ==
  /\ ppc = "inner"
  /\ ElementFor(Exec(innerText, arrLastIndex, FALSE))
  /\ UNCHANGED formatVars

\* arrRegex.exec returns null: arr is pushed to args
EndFor(m) ==
  /\ ~m.ok
  /\ argList' = Append(argList, Arr(arrList))
  /\ ppc' = "outer"
  /\ UNCHANGED <<argText, regexLastIndex, innerText, arrList, arrLastIndex>>

EndArray ==
  /\ ppc = "inner"
  /\ EndFor(Exec(innerText, arrLastIndex, FALSE))
  /\ UNCHANGED formatVars

ParseNext ==
  ParseCall \/ ParseReturn \/ PushToken \/ BeginArray \/ PushElement
  \/ EndArray

ParseSpec == Init /\ [][ParseNext]_vars

----------------------------------------------------------------------------
(* A run of either function to its end *)

\* a step of a formatting call; no parser call is observed beside it
FormatStep == ppc = "idle" /\ Next

\* a step of a parser call on its own
ParseStep == pc = "idle" /\ ParseNext

RunNext == FormatStep \/ ParseStep

\* a run is one call of formatStringWithData or one call of the parser
RunSpec == Init /\ [][RunNext]_vars
----------------------------------------------------------------------------
(* Properties *)

\* the call has returned for template text t
DoneWith(t) == pc = "done" /\ template.t = "str" /\ template.v = t

Returned(t, text) == DoneWith(t) /\ result.t = "str" /\ result.v = text

OnMain == data = DocMain

ClosedPieces == Pieces \ {<<"{","{","n","a","m","e">>, <<"}","}">>, <<"{">>}

\* the text a closed piece alone becomes: itself, or its placeholder's
\* replacement
PieceText(piece, d) ==
  IF CloseOf(piece, 1) # 0
  THEN ToStr(EvaluatePlaceholder(Slice(piece, 3, Len(piece) - 2), d).val)
  ELSE piece

\* C2: placeholder evaluation is local: the output is the template's text
\* with each placeholder replaced by a text that depends only on its own body
\* and the data, so a placeholder yielding "#ERROR" or "" changes no sibling.
C2_Local ==
  pc = "done" /\ template.t = "str" =>
    \A ps \in SeqsUpTo(ClosedPieces, MaxParts) :
      template.v = Flatten(ps) =>
        result.v = Flatten([i \in 1..Len(ps) |-> PieceText(ps[i], dataToUse)])

\* a failing placeholder is followed by one that is replaced as usual
C2_Witness == Returned(<<"{","{","d","a","t","e","(","n","a","m","e",")","}","}","{","{","n","a","m","e","}","}">>, <<"#","E","R","R","O","R","J","o","h","n"," ","D","o","e">>) /\ OnMain

RECURSIVE HasPath(_, _)
\* whether every segment is a key stored in the node reached so far: a key
\* of a mapping, a decimal index of a sequence
HasPath(d, parts) ==
  \/ parts = <<>>
  \/ /\ d.t = "obj"
     /\ parts[1] \in DOMAIN d.v
     /\ HasPath(d.v[parts[1]], Tail(parts))
  \/ /\ d.t = "arr"
     /\ IsIndexKey(parts[1])
     /\ DigitsValue(parts[1]) < Len(d.v)
     /\ HasPath(d.v[DigitsValue(parts[1]) + 1], Tail(parts))

RECURSIVE ValueAt(_, _)
\* the value stored at a path that HasPath finds
ValueAt(d, parts) ==
  IF parts = <<>> THEN d
  ELSE IF d.t = "obj" THEN ValueAt(d.v[parts[1]], Tail(parts))
  ELSE ValueAt(d.v[DigitsValue(parts[1]) + 1], Tail(parts))

\* the document a call works on: an absent one is the empty mapping
Document == IF Truthy(data) THEN data ELSE Obj(<<>>)

\* C3: for a key path absent from the document, "{{" + p + "}}" formats to
\* the empty string, also when a segment names an inherited property such
\* as toString, constructor or length.
C3_AbsentPathEmpty ==
  \A p \in Paths :
    DoneWith(<<"{","{">> \o p \o <<"}","}">>) /\ ~HasPath(Document, Split(p, <<".">>))
      => result.v = <<>>

\* C4: a path that reaches a present scalar formats to its display string
\* ("true"/"false", the decimal text, the string itself), falsy values
\* included; a present null formats to the empty string.
C4_PresentScalar ==
  \A p \in Paths :
    DoneWith(<<"{","{">> \o p \o <<"}","}">>) /\ HasPath(Document, Split(p, <<".">>)) =>
      LET v == ValueAt(Document, Split(p, <<".">>))
      IN /\ v.t = "bool" => result.v = IF v.v THEN <<"t","r","u","e">> ELSE <<"f","a","l","s","e">>
         /\ v.t = "num" => result.v = NumberToString(v.v)
         /\ v.t = "str" => result.v = v.v
         /\ v.t = "null" => result.v = <<>>

\* a present falsy value has been rendered
C4_Witness == Returned(<<"{","{","z","e","r","o","}","}">>, <<"0">>) /\ OnMain

\* C5: default(key, 'fallback') is the fallback exactly when the value
\* resolved at key is NotFound or null, and the display string of the value
\* otherwise, falsy values included, for simple and hierarchical keys.
C5_Default ==
  \A k \in Keys, f \in Fallbacks :
    DoneWith(<<"{","{","d","e","f","a","u","l","t","(">> \o k \o <<","," ","'">> \o f \o <<"'",")","}","}">>) =>
      LET v == resolveDataPath(dataToUse, k)
      IN result.v = IF v.t \in {"undef", "null"} THEN f ELSE ToStr(v)

\* a falsy value has kept its place against the fallback
C5_Witness == Returned(<<"{","{","d","e","f","a","u","l","t","(","a","c","t","i","v","e",","," ","'","X","'",")","}","}">>, <<"f","a","l","s","e">>) /\ OnMain

\* C6: a call whose name is not default, date or replace becomes "#ERROR",
\* inherited names included, and its arguments are neither parsed nor
\* resolved.
C6_UnknownName ==
  \A n \in UnknownNames, a \in ArgTexts :
    DoneWith(<<"{","{">> \o n \o <<"(">> \o a \o <<")","}","}">>) =>
      result.v = ERROR /\ calls = <<>>

\* a call of an inherited name has become "#ERROR"
C6_Witness == Returned(<<"{","{","t","o","S","t","r","i","n","g","(","n","a","m","e",")","}","}">>, ERROR) /\ OnMain /\ evals = 1

\* C7: a call of a registered transformation whose arguments do not fit
\* (default without a fallback, replace with an argument that is not a
\* two-element string array) becomes "#ERROR".
C7_MismatchIsError ==
  \A t \in DefaultNoFallback \cup ReplaceBadPair :
    DoneWith(t) => result.v = ERROR

RECURSIVE ReplaceAll(_, _, _, _)
\* s from index i on, with every occurrence of search, found scanning left
\* to right and never overlapping, replaced by rep (search is not empty)
ReplaceAll(s, i, search, rep) ==
  IF i > Len(s) THEN <<>>
  ELSE IF OccursAt(s, search, i)
       THEN rep \o ReplaceAll(s, i + Len(search), search, rep)
       ELSE <<s[i]>> \o ReplaceAll(s, i + 1, search, rep)

RECURSIVE ApplyPairs(_, _)
\* the pairs applied in order, each to the output of the one before
ApplyPairs(s, ps) ==
  IF ps = <<>> THEN s
  ELSE ApplyPairs(ReplaceAll(s, 1, ps[1][1], ps[1][2]), Tail(ps))

\* the string replace starts from
StartString(k) ==
  LET v == resolveDataPath(dataToUse, k)
  IN IF v.t \in {"undef", "null"} THEN <<>> ELSE ToStr(v)

SearchPairs == {p \in PairStrings : p[1] # <<>>}

\* C8: replace starts from the display string of the resolved value ("" for
\* NotFound or null) and applies the pairs in argument order, each replacing
\* every non-overlapping occurrence of its search string, left to right, in
\* the output of the pair before; an absent search string changes nothing.
C8_ReplaceInOrder ==
  \A k \in ReplaceKeys, ps \in {<<>>} \cup SeqsUpTo(SearchPairs, MaxPairs) :
    DoneWith(ReplaceTemplateOf(k, ps)) => result.v = ApplyPairs(StartString(k), ps)

\* the second pair has worked on the output of the first
C8_Witness ==
  Returned(<<"{","{","r","e","p","l","a","c","e","(","d",","," ","[","'","i","s","'",","," ","'","W","A","S","'","]",","," ","[","'","t","e","s","t","'",","," ","'","T","'","]",")","}","}">>, <<"T","h","W","A","S"," ","W","A","S"," ","a"," ","T",".">>)
  /\ OnMain

\* C9: a pair with the empty search string is a no-op for that pair only:
\* the result is that of the other pairs applied in order.
C9_EmptySearchNoOp ==
  \A k \in ReplaceKeys, ps \in SeqsUpTo(PairStrings, MaxPairs) :
    DoneWith(ReplaceTemplateOf(k, ps)) /\ (\E i \in 1..Len(ps) : ps[i][1] = <<>>)
      => result.v = ApplyPairs(StartString(k),
                               SelectSeq(ps, LAMBDA p : p[1] # <<>>))

\* an empty search after a pair that was applied
C9_Witness ==
  Returned(<<"{","{","r","e","p","l","a","c","e","(","d",","," ","[","'","i","s","'",","," ","'","W","A","S","'","]",","," ","[","'","'",","," ","'","Z","'","]",")","}","}">>, <<"T","h","W","A","S"," ","W","A","S"," ","a"," ","t","e","s","t",".">>)
  /\ OnMain

\* C10: date(key) is "" when the resolved value is NotFound, null or "",
\* "#ERROR" when a present value is no valid instant, and a key missing
\* from the document never yields "#ERROR".
C10_DateMissingNotError ==
  \A k \in Keys :
    DoneWith(<<"{","{","d","a","t","e","(">> \o k \o <<")","}","}">>) =>
      LET v == resolveDataPath(dataToUse, k)
      IN /\ v.t \in {"undef", "null"} \/ v = Str(<<>>) => result.v = <<>>
         /\ k \in {<<"n","a","m","e">>, <<"d">>, <<"a","d","d","r","e","s","s">>, <<"i","t","e","m","s">>} /\ OnMain
              => result.v = ERROR
         /\ ~HasPath(Document, Split(k, <<".">>)) => result.v # ERROR


\* the date text of the instant ms milliseconds after the epoch
InstantText(ms) == RenderDate(DateOfTime(ms)).v

\* the number stored at key k of the document, as digits
NumberAt(k) == dataToUse.v[k].v

IsNumberAt(k) ==
  dataToUse.t = "obj" /\ k \in DOMAIN dataToUse.v /\ dataToUse.v[k].t = "num"

\* C11: in date a number n below 1e11 is the instant n * 1000 ms and a
\* number from 1e11 on, the limit included, is the instant n ms; so seconds
\* s and milliseconds 1000 * s give the same text when s < 1e11 <= 1000 * s.
C11_SecondsOrMillis ==
  \A k \in TimeKeys :
    DoneWith(<<"{","{","d","a","t","e","(">> \o k \o <<")","}","}">>) /\ IsNumberAt(k) =>
      /\ result.v = IF NumLess(NumberAt(k), SecondsLimit)
                    THEN InstantText(NumberAt(k) \o <<0,0,0>>)
                    ELSE InstantText(NumberAt(k))
      /\ \A k2 \in TimeKeys :
           /\ IsNumberAt(k2)
           /\ NumberAt(k2) = NumberAt(k) \o <<0,0,0>>
           /\ NumLess(NumberAt(k), SecondsLimit)
           /\ ~NumLess(NumberAt(k2), SecondsLimit)
           => result.v = TransformDate(dataToUse.v[k2]).v

\* the limit 1e11 has been read as milliseconds
C11_Witness == Returned(<<"{","{","d","a","t","e","(","l","i","m","i","t",")","}","}">>, <<"3","/","3","/","1","9","7","3">>) /\ data = DocTimes

\* whether t[i..j+1] is "{{", characters other than braces, "}}"
IsRegion(t, i, j) ==
  /\ t[i] = "{" /\ t[i + 1] = "{"
  /\ t[j] = "}" /\ t[j + 1] = "}"
  /\ \A k \in (i + 2)..(j - 1) : t[k] # "{" /\ t[k] # "}"

HasRegion(t) ==
  \E i \in 1..Len(t), j \in 1..(Len(t) - 1) : i + 2 <= j /\ IsRegion(t, i, j)

\* C12: a template without a region "{{", characters other than braces,
\* "}}" is returned unchanged for every data document, an unterminated
\* "{{name" included, and no placeholder is evaluated.
C12_NoRegionIdentity ==
  pc = "done" /\ template.t = "str" /\ ~HasRegion(template.v) =>
    result.v = template.v /\ evals = 0

\* an unterminated placeholder whose name is a key has been returned as is
C12_Witness == Returned(<<"{","{","n","a","m","e">>, <<"{","{","n","a","m","e">>) /\ OnMain

\* the same string as for the document {}
SameAsEmptyDocument ==
  pc = "done" /\ data = Undefined /\ template.t = "str" =>
    result.v = TextFrom(template.v, 1, Obj(<<>>))

\* C13: format(template, undefined) is format(template, {}): every key path
\* resolves to NotFound, so a plain placeholder becomes the empty string
\* and a transformation receives NotFound.
C13_UndefinedAsEmpty ==
  /\ SameAsEmptyDocument
  /\ \A p \in Paths :
       DoneWith(<<"{","{">> \o p \o <<"}","}">>) /\ data = Undefined => result.v = <<>>
  /\ \A k \in Keys :
       DoneWith(<<"{","{","d","e","f","a","u","l","t","(">> \o k \o <<","," ","'","X","'",")","}","}">>) /\ data = Undefined
         => result.v = <<"X">>

\* the argument text of the arguments ws, one comma between two of them
TextOf(ws) == Join([i \in 1..Len(ws) |-> ws[i][1]], <<",">>)

\* the values the arguments ws stand for
ValuesOf(ws) == [i \in 1..Len(ws) |-> ws[i][2]]

\* the parser's steps end with what parseTransformationArgs computes
ParserAgrees ==
  ppc = "returned" => argList = parseTransformationArgs(argText)

\* C14: the parser splits the argument text at top-level commas only: a
\* comma inside a quoted literal or an array literal starts no new
\* argument, a quoted token is returned as its inner text, a bracketed
\* token as the sequence of its unquoted elements, empty for an empty
\* interior.
C14_TopLevelSplit ==
  \A ws \in SeqsUpTo(WellFormedArgs, MaxArgs) :
    ppc = "returned" /\ argText = TextOf(ws) => argList = ValuesOf(ws)

\* a quoted literal and an array literal, each with a comma inside
C14_Witness ==
  /\ ppc = "returned"
  /\ argText = <<" ","'","a",","," ","b","'"," ",",","[","'","x","'",","," ","'","X","'","]">>
  /\ argList = <<Str(<<"a",","," ","b">>), Arr(<<Str(<<"x">>), Str(<<"X">>)>>)>>

\* C15: a formatting call leaves the data document unchanged: from the call
\* to its return every key and value of data is what the caller passed.
C15_DataUnchanged == [][pc # "idle" => data' = data]_vars

\* a call that resolved a hierarchical key has returned, data as passed
C15_Witness ==
  Returned(<<"{","{","a","d","d","r","e","s","s",".","c","i","t","y","}","}">>, <<"N","Y">>) /\ OnMain /\ dataToUse = DocMain
  /\ calls = <<"resolveDataPath">>

\* C16: whitespace around a placeholder body is ignored: an empty or blank
\* body becomes the empty string, and "{{ b }}" becomes what "{{b}}" becomes,
\* for key paths and transformation calls.
C16_BodyTrimmed ==
  /\ \A t \in BlankTemplates : DoneWith(t) => result.v = <<>> /\ calls = <<>>
  /\ \A b \in Bodies, p \in Pads :
       DoneWith(<<"{","{">> \o p[1] \o b \o p[2] \o <<"}","}">>) =>
         result.v = ToStr(EvaluatePlaceholder(b, dataToUse).val)

\* a key with spaces on both sides has been resolved
C16_Witness == Returned(<<"{","{"," "," ","n","a","m","e"," "," "," ","}","}">>, <<"J","o","h","n"," ","D","o","e">>) /\ OnMain

\* C17: the i-th comma-separated segment of the argument text is the i-th
\* argument: the first is the key path, an absent or empty first segment
\* resolves to NotFound, and the later segments keep their positions.
C17_Positional ==
  /\ DoneWith(<<"{","{","d","e","f","a","u","l","t","(","m","i","s","s","i","n","g",","," ","'","X","'",")","}","}">>) => result.v = <<"X">>
  /\ DoneWith(<<"{","{","d","a","t","e","(",")","}","}">>) => result.v = <<>>
  /\ DoneWith(<<"{","{","r","e","p","l","a","c","e","(",")","}","}">>) => result.v = <<>>
  /\ DoneWith(<<"{","{","d","e","f","a","u","l","t","(",","," ","'","X","'",")","}","}">>) => result.v = <<"X">>

\* the close of the region that starts at i, 0 when none starts there
RegionClose(t, i) ==
  IF \E j \in (i + 2)..(Len(t) - 1) : IsRegion(t, i, j)
  THEN CHOOSE j \in (i + 2)..(Len(t) - 1) : IsRegion(t, i, j)
  ELSE 0

RECURSIVE RegionCount(_, _)
\* the number of regions of t found from index from on, left to right,
\* each search starting behind the region before
RegionCount(t, from) ==
  LET I == {i \in from..(Len(t) - 3) : RegionClose(t, i) # 0}
  IN IF I = {} THEN 0
     ELSE 1 + RegionCount(t, RegionClose(t, SetMin(I)) + 2)

\* C18: replacement text is not scanned again: a value or a replace result
\* that holds "{{...}}" appears as it is, and the placeholders evaluated
\* are the regions of the template as passed.
C18_NoRescan ==
  pc = "done" /\ template.t = "str" =>
    /\ evals = RegionCount(template.v, 1)
    /\ data = DocBraces =>
         /\ \A k \in BraceKeys :
              /\ template.v = <<"{","{">> \o k \o <<"}","}">> => result.v = data.v[k].v
         /\ template.v = <<"{","{","h","e","a","d","}","}","m","e","}","}">> => result.v = <<"{","{","n","a","m","e","}","}">>
         /\ template.v = <<"{","{","d","e","f","a","u","l","t","(","t","p","l",","," ","'","X","'",")","}","}">> => result.v = <<"{","{","n","a","m","e","}","}">>
         /\ template.v = <<"{","{","r","e","p","l","a","c","e","(","s","p",","," ","[","'"," ","'",","," ","'","'","]",")","}","}">> => result.v = <<"{","{","n","a","m","e","}","}">>

\* a value that is itself a placeholder, next to a real one
C18_Witness ==
  Returned(<<"{","{","t","p","l","}","}","{","{","n","a","m","e","}","}">>, <<"{","{","n","a","m","e","}","}","J","o","h","n"," ","D","o","e">>) /\ data = DocBraces
  /\ evals = 2

\* every match of a loop, in the parser and in template.replace, moves
\* that loop's lastIndex forward
LoopsAdvance ==
  /\ ppc = "outer" /\ ppc' # "returned" => regexLastIndex' > regexLastIndex
  /\ ppc = "inner" /\ ppc' = "inner" => arrLastIndex' > arrLastIndex
  /\ pc = "scan" /\ pc' = "scan" => lastIndex' > lastIndex

\* no lastIndex lies behind the end of its text, and no loop has matched
\* more often than its text has characters
LoopsBounded ==
  /\ regexLastIndex <= Len(argText) + 1
  /\ arrLastIndex <= Len(innerText) + 1
  /\ Len(argList) <= Len(argText)
  /\ Len(arrList) <= Len(innerText)
  /\ pc = "scan" => lastIndex <= Len(template.v) + 1 /\ evals <= Len(template.v)

\* C19: every call terminates: each iteration of the parser's two loops
\* consumes at least one character, so a loop matches at most as often as
\* its text has characters, malformed quotes and brackets included; the
\* scan of the template advances likewise, whatever a replace pair inserts.
C19_Terminates == [][LoopsAdvance]_vars /\ []LoopsBounded

\* the parser has returned from a text with an open quote and an open
\* bracket
C19_Witness ==
  /\ ppc = "returned"
  /\ argText = <<"'","i","t",",","[","x">>
  /\ argList = <<Str(<<"'","i","t">>), Str(<<"[","x">>)>>
====
